---- MODULE Spec2Model ----
(***************************************************************************)
(* Model of pymatgen/alchemy/filters.py: the structure filters used by the *)
(* Transmuter (ContainsSpecieFilter, SpecieProximityFilter,                *)
(* RemoveDuplicatesFilter, ChargeBalanceFilter) and their dict round trip. *)
(***************************************************************************)
EXTENDS Integers, Sequences, FiniteSets, TLC

VARIABLES
    symprec,         \* RemoveDuplicatesFilter._symprec
    structure_list,  \* RemoveDuplicatesFilter._structure_list
    calls,           \* history: one record per completed test call
    universe,        \* the structures the driver may submit
    pc, cur, idx,    \* interleaved test calls: position, call record, loop index
    overlapped,      \* history: some call started while another was in progress
    filter,          \* a filter object (ContainsSpecie, SpecieProximity, ...) under test
    given,           \* the arguments its constructor was called with
    rebuilt,         \* the filter from_dict builds from filter's to_dict
    last_structure,  \* the structure last passed to filter.test
    result,          \* what filter.test returned for it
    result_rebuilt   \* what rebuilt.test returned for it

fvars == <<filter, given, rebuilt, last_structure, result, result_rebuilt>>

vars == <<symprec, structure_list, calls, universe, pc, cur, idx, overlapped,
          filter, given, rebuilt, last_structure, result, result_rebuilt>>

\* ---------------------------------------------------------------- bounds
NumHash == 2
NumSg == 2
NumGeo == 2
MaxCalls == 3
RaceNumSg == 2
RaceNumGeo == 1
MaxRaceCalls == 3

\* ------------------------------------------------- structures (collaborators)
\* A structure as the duplicate filter observes it: its structural hash, the
\* space group the symmetry finder detects, its geometry class under the
\* matcher's tolerance, and which collaborator (if any) cannot process it.
WellFormed == [hash : 1..NumHash, sg : 1..NumSg, geo : 1..NumGeo, bad : {"none"}]

Malformed == [hash : {1}, sg : {1}, geo : {1}, bad : {"hash", "sg", "fit"}]

\* The structures submitted by the interleaved drivers.
RaceStructs == [hash : {1}, sg : 1..RaceNumSg, geo : 1..RaceNumGeo, bad : {"none"}]

None == "None"

Symprecs == {None, "1e-5"}

get_structure_hash(s) == s.hash

get_sg(s) == s.sg

\* StructureMatcher.fit: structures whose hashes differ never fit; otherwise
\* the geometric comparison decides.
fit(s, t) == s.hash = t.hash /\ s.geo = t.geo

Raises(s, what) == s.bad = what

\* ------------------------------------------------- RemoveDuplicatesFilter.test
\* The hash comparison of line 198-199.
SameHash_nocheck(s, structure) == TRUE

SameHash(s, structure) == get_structure_hash(structure) = get_structure_hash(s)

\* The symmetry comparison of line 200-201.
SameSg(sp, s, structure) == sp = None \/ get_sg(s) = get_sg(structure)

\* The loop of lines 197-203 from position i on; outcome "dup" (return False),
\* "unique" (loop exhausted) or "raise", with the pairs fit was invoked on.
RECURSIVE Cascade(_, _, _, _, _)
Cascade(list, i, structure, sp, fits) ==
    IF i > Len(list) THEN [out |-> "unique", fits |-> fits]
    ELSE LET s == list[i] IN
        IF Raises(structure, "hash") \/ Raises(s, "hash")
        THEN [out |-> "raise", fits |-> fits]
        ELSE IF ~SameHash(s, structure)
        THEN Cascade(list, i + 1, structure, sp, fits)
        ELSE IF sp /= None /\ (Raises(s, "sg") \/ Raises(structure, "sg"))
        THEN [out |-> "raise", fits |-> fits]
        ELSE IF ~SameSg(sp, s, structure)
        THEN Cascade(list, i + 1, structure, sp, fits)
        ELSE IF Raises(s, "fit") \/ Raises(structure, "fit")
        THEN [out |-> "raise", fits |-> fits \cup {<<s, structure>>}]
        ELSE IF fit(s, structure)
        THEN [out |-> "dup", fits |-> fits \cup {<<s, structure>>}]
        ELSE Cascade(list, i + 1, structure, sp, fits \cup {<<s, structure>>})

\* Variants of test with one slip each in lines 188-206.
test_skipfirst(list, sp, structure) ==
    IF list = << >> THEN [ret |-> "True", list |-> Append(list, structure), fits |-> {}]
    ELSE LET c == Cascade(list, 2, structure, sp, {}) IN
        IF c.out = "raise" THEN [ret |-> "raise", list |-> list, fits |-> c.fits]
        ELSE IF c.out = "dup" THEN [ret |-> "False", list |-> list, fits |-> c.fits]
        ELSE [ret |-> "True", list |-> Append(list, structure), fits |-> c.fits]

test_noappendfirst(list, sp, structure) ==
    IF list = << >> THEN [ret |-> "True", list |-> list, fits |-> {}]
    ELSE LET c == Cascade(list, 1, structure, sp, {}) IN
        IF c.out = "raise" THEN [ret |-> "raise", list |-> list, fits |-> c.fits]
        ELSE IF c.out = "dup" THEN [ret |-> "False", list |-> list, fits |-> c.fits]
        ELSE [ret |-> "True", list |-> Append(list, structure), fits |-> c.fits]

test_prepend(list, sp, structure) ==
    IF list = << >> THEN [ret |-> "True", list |-> Append(list, structure), fits |-> {}]
    ELSE LET c == Cascade(list, 1, structure, sp, {}) IN
        IF c.out = "raise" THEN [ret |-> "raise", list |-> list, fits |-> c.fits]
        ELSE IF c.out = "dup" THEN [ret |-> "False", list |-> list, fits |-> c.fits]
        ELSE [ret |-> "True", list |-> <<structure>> \o list, fits |-> c.fits]

test_appendearly(list, sp, structure) ==
    IF list = << >> THEN [ret |-> "True", list |-> Append(list, structure), fits |-> {}]
    ELSE LET c == Cascade(list, 1, structure, sp, {}) IN
        IF c.out = "raise" THEN [ret |-> "raise", list |-> Append(list, structure), fits |-> c.fits]
        ELSE IF c.out = "dup" THEN [ret |-> "False", list |-> list, fits |-> c.fits]
        ELSE [ret |-> "True", list |-> Append(list, structure), fits |-> c.fits]

\* RemoveDuplicatesFilter.test: the value returned ("True", "False" or
\* "raise" for a propagated collaborator error), the list afterwards and the
\* pairs the geometric fit was invoked on.
test(list, sp, structure) ==
    IF list = << >> THEN [ret |-> "True", list |-> Append(list, structure), fits |-> {}]
    ELSE LET c == Cascade(list, 1, structure, sp, {}) IN
        IF c.out = "raise" THEN [ret |-> "raise", list |-> list, fits |-> c.fits]
        ELSE IF c.out = "dup" THEN [ret |-> "False", list |-> list, fits |-> c.fits]
        ELSE [ret |-> "True", list |-> Append(list, structure), fits |-> c.fits]

\* ------------------------------------------------- sequential driver
Threads == {1, 2}

RaceIdle ==
    /\ pc = [p \in Threads |-> "idle"]
    /\ cur = [p \in Threads |-> 0]
    /\ idx = [p \in Threads |-> 0]
    /\ overlapped = FALSE

NoFilter == [state |-> "none"]

FilterIdle ==
    /\ filter = NoFilter
    /\ given = None
    /\ rebuilt = NoFilter
    /\ last_structure = None
    /\ result = None
    /\ result_rebuilt = None

\* RemoveDuplicatesFilter.__init__ with a matcher and a symprec.
Init ==
    /\ symprec \in Symprecs
    /\ structure_list = << >>
    /\ calls = << >>
    /\ universe = WellFormed
    /\ RaceIdle
    /\ FilterIdle

InitErr ==
    /\ symprec \in Symprecs
    /\ structure_list = << >>
    /\ calls = << >>
    /\ universe = WellFormed \cup Malformed
    /\ RaceIdle
    /\ FilterIdle

\* One whole test call, as the sequential driver performs it.
Test(structure) ==
    /\ Len(calls) < MaxCalls
    /\ LET r == test(structure_list, symprec, structure) IN
        /\ structure_list' = r.list
        /\ calls' = Append(calls, [arg |-> structure, ret |-> r.ret,
                                   before |-> structure_list, fits |-> r.fits])
    /\ UNCHANGED <<symprec, universe, pc, cur, idx, overlapped, fvars>>

Next == \E structure \in universe : Test(structure)

Spec == Init /\ [][Next]_vars

SpecErr == InitErr /\ [][Next]_vars

\* ------------------------------------------------- interleaved test calls
\* One pass of the loop body (lines 198-203) on a retained structure.
Duplicate_negfit(sp, s, structure) ==
    SameHash(s, structure) /\ SameSg(sp, s, structure) /\ ~fit(s, structure)

Duplicate(sp, s, structure) ==
    SameHash(s, structure) /\ SameSg(sp, s, structure) /\ fit(s, structure)

Return(p, value) ==
    /\ calls' = [calls EXCEPT ![cur[p]].ret = value]
    /\ pc' = [pc EXCEPT ![p] = "idle"]

\* A thread enters test (line 188).
RaceCall(p, structure) ==
    /\ pc[p] = "idle"
    /\ Len(calls) < MaxRaceCalls
    /\ calls' = Append(calls, [arg |-> structure, ret |-> "pending",
                               before |-> structure_list, fits |-> {}])
    /\ cur' = [cur EXCEPT ![p] = Len(calls) + 1]
    /\ pc' = [pc EXCEPT ![p] = "check"]
    /\ overlapped' = (overlapped \/ \E q \in Threads \ {p} : pc[q] /= "idle")
    /\ UNCHANGED <<symprec, structure_list, universe, idx, fvars>>

\* if not self._structure_list (line 189).
RaceCheck(p) ==
    /\ pc[p] = "check"
    /\ IF structure_list = << >>
       THEN pc' = [pc EXCEPT ![p] = "append_first"] /\ idx' = idx
       ELSE pc' = [pc EXCEPT ![p] = "loop"] /\ idx' = [idx EXCEPT ![p] = 1]
    /\ UNCHANGED <<symprec, structure_list, calls, universe, cur, overlapped, fvars>>

\* append and return True (lines 190-191).
RaceAppendFirst(p) ==
    /\ pc[p] = "append_first"
    /\ structure_list' = Append(structure_list, calls[cur[p]].arg)
    /\ Return(p, "True")
    /\ UNCHANGED <<symprec, universe, cur, idx, overlapped, fvars>>

\* One step of the list iterator and the loop body (lines 197-203).
RaceLoop(p) ==
    /\ pc[p] = "loop"
    /\ IF idx[p] > Len(structure_list)
       THEN /\ pc' = [pc EXCEPT ![p] = "append"]
            /\ UNCHANGED <<calls, idx>>
       ELSE IF Duplicate(symprec, structure_list[idx[p]], calls[cur[p]].arg)
       THEN Return(p, "False") /\ idx' = idx
       ELSE /\ idx' = [idx EXCEPT ![p] = idx[p] + 1]
            /\ UNCHANGED <<calls, pc>>
    /\ UNCHANGED <<symprec, structure_list, universe, cur, overlapped, fvars>>

\* append and return True (lines 205-206).
RaceAppend(p) ==
    /\ pc[p] = "append"
    /\ structure_list' = Append(structure_list, calls[cur[p]].arg)
    /\ Return(p, "True")
    /\ UNCHANGED <<symprec, universe, cur, idx, overlapped, fvars>>

NextRace ==
    \E p \in Threads :
        \/ \E structure \in universe : RaceCall(p, structure)
        \/ RaceCheck(p)
        \/ RaceAppendFirst(p)
        \/ RaceLoop(p)
        \/ RaceAppend(p)

InitRace ==
    /\ symprec \in Symprecs
    /\ structure_list = << >>
    /\ calls = << >>
    /\ universe = RaceStructs
    /\ RaceIdle
    /\ FilterIdle

SpecRace == InitRace /\ [][NextRace]_vars

\* ------------------------------------------------- properties: duplicates
\* The list after the k-th call.
After(k) == IF k < Len(calls) THEN calls[k + 1].before ELSE structure_list

\* The arguments of the calls that returned True, in order.
RECURSIVE Accepted(_)
Accepted(h) ==
    IF h = << >> THEN << >>
    ELSE LET rest == Accepted(SubSeq(h, 1, Len(h) - 1))
             last == h[Len(h)]
         IN IF last.ret = "True" THEN Append(rest, last.arg) ELSE rest

Positions == 1..Len(structure_list)

\* C1 as stated: no two retained structures at distinct positions fit.
C1_NoFittingPairRetained ==
    \A i, j \in Positions :
        i /= j => ~(structure_list[i].hash = structure_list[j].hash
                    /\ structure_list[i].geo = structure_list[j].geo)

\* C1 amended: no two retained structures at distinct positions are
\* duplicates in the filter's sense: same hash, same space group when a
\* symprec is configured, and a geometric fit.
C1_NoDuplicatePairRetained ==
    \A i, j \in Positions :
        i /= j => ~(/\ structure_list[i].hash = structure_list[j].hash
                    /\ (symprec = None \/ structure_list[i].sg = structure_list[j].sg)
                    /\ structure_list[i].geo = structure_list[j].geo)

\* A duplicate was rejected and two structures are retained.
C1_Witness ==
    /\ Len(structure_list) >= 2
    /\ \E k \in 1..Len(calls) : calls[k].ret = "False"

\* C2: once a structure has been submitted, every later call with the same
\* structure returns False (so the same structure twice on a fresh instance
\* yields True, False).
C2_ResubmissionRejected ==
    /\ \A k, m \in 1..Len(calls) :
        (k < m /\ calls[k].arg = calls[m].arg) => calls[m].ret = "False"
    /\ Len(calls) >= 1 => calls[1].ret = "True"

\* A structure rejected on its first submission is submitted again.
C2_Witness ==
    /\ Len(calls) = 3
    /\ calls[1].arg /= calls[2].arg
    /\ calls[2].arg = calls[3].arg
    /\ calls[2].ret = "False"

\* C3: the retained list is, in order, the submitted structures whose call
\* returned True; True appends the argument at the end, False changes nothing.
C3_RetainedIsAcceptedSubsequence ==
    /\ structure_list = Accepted(calls)
    /\ \A k \in 1..Len(calls) :
        /\ calls[k].ret = "True" => After(k) = Append(calls[k].before, calls[k].arg)
        /\ calls[k].ret = "False" => After(k) = calls[k].before

\* The sequence A, B, C with B a duplicate of A: True, False, True and
\* exactly A, C retained.
C3_Witness ==
    /\ Len(calls) = 3
    /\ calls[1].ret = "True" /\ calls[2].ret = "False" /\ calls[3].ret = "True"
    /\ structure_list = <<calls[1].arg, calls[3].arg>>

\* C4: a collaborator error propagates and leaves the retained list as it
\* was; the list changes only by appending the argument of a call that
\* returned True.
C4_ErrorLeavesListUnchanged ==
    \A k \in 1..Len(calls) :
        /\ calls[k].ret = "raise" => After(k) = calls[k].before
        /\ After(k) /= calls[k].before =>
            /\ calls[k].ret = "True"
            /\ After(k) = Append(calls[k].before, calls[k].arg)
        /\ (calls[k].before /= << >> /\ calls[k].arg.bad = "hash") => calls[k].ret = "raise"
        /\ \A pr \in calls[k].fits :
            (pr[1].bad = "fit" \/ pr[2].bad = "fit") => calls[k].ret = "raise"

\* A call raised from the geometric fit with a non-empty retained list.
C4_Witness ==
    \E k \in 1..Len(calls) :
        /\ calls[k].ret = "raise"
        /\ calls[k].before /= << >>
        /\ calls[k].fits /= {}

\* C5: fit is only ever invoked on a retained structure and the new one when
\* their hashes are equal, and a new structure whose hash differs from every
\* retained hash is accepted and appended without any fit.
C5_FitOnlyOnEqualHash ==
    \A k \in 1..Len(calls) :
        /\ \A pr \in calls[k].fits :
            /\ pr[1].hash = pr[2].hash
            /\ pr[2] = calls[k].arg
            /\ \E i \in 1..Len(calls[k].before) : calls[k].before[i] = pr[1]
        /\ (\A i \in 1..Len(calls[k].before) :
                calls[k].before[i].hash /= calls[k].arg.hash) =>
            /\ calls[k].ret = "True"
            /\ calls[k].fits = {}
            /\ After(k) = Append(calls[k].before, calls[k].arg)

\* One call met only differing hashes on a non-empty list, another invoked fit.
C5_Witness ==
    /\ \E k \in 1..Len(calls) :
        /\ calls[k].before /= << >>
        /\ \A i \in 1..Len(calls[k].before) : calls[k].before[i].hash /= calls[k].arg.hash
    /\ \E m \in 1..Len(calls) : calls[m].fits /= {}

\* C10 as stated: two retained structures fit each other only if test calls
\* overlapped.
C10_FittingPairOnlyByRace ==
    (\E i, j \in Positions :
        /\ i /= j
        /\ structure_list[i].hash = structure_list[j].hash
        /\ structure_list[i].geo = structure_list[j].geo) => overlapped

\* C10 amended: two retained structures are duplicates in the filter's sense
\* (same hash, same space group when a symprec is configured, geometric fit)
\* only if test calls overlapped; with overlap such a state is reachable.
C10_DuplicatePairOnlyByRace ==
    (\E i, j \in Positions :
        /\ i /= j
        /\ structure_list[i].hash = structure_list[j].hash
        /\ (symprec = None \/ structure_list[i].sg = structure_list[j].sg)
        /\ structure_list[i].geo = structure_list[j].geo) => overlapped

\* Two overlapping calls both appended the same structure.
C10_Witness ==
    /\ overlapped
    /\ \E i, j \in Positions : i /= j /\ structure_list[i] = structure_list[j]

\* ------------------------------------------------- species (collaborators)
\* Elements and species as the filters observe them: the symbol, the atomic
\* number Z and the oxidation state (None for a bare element).
Na == [symbol |-> "Na", Z |-> 11, oxi |-> None]

NaPlus == [symbol |-> "Na", Z |-> 11, oxi |-> "+"]

ClMinus == [symbol |-> "Cl", Z |-> 17, oxi |-> "-"]

K == [symbol |-> "K", Z |-> 19, oxi |-> None]

SpeciesObjs == {Na, NaPlus, ClMinus, K}

SpeciesStrings == {"Na", "Na+", "Cl-", "K"}

\* A string the species parser does not recognise.
Unparseable == "Xx"

ParseError == [symbol |-> "ParseError", Z |-> 0, oxi |-> None]

\* smart_element_or_specie: the element or species a string denotes.
smart_element_or_specie(k) ==
    CASE k = "Na" -> Na
      [] k = "Na+" -> NaPlus
      [] k = "Cl-" -> ClMinus
      [] k = "K" -> K
      [] OTHER -> ParseError

\* str(sp): the symbol followed by the oxidation state, if any.
str(sp) ==
    CASE sp = Na -> "Na"
      [] sp = NaPlus -> "Na+"
      [] sp = ClMinus -> "Cl-"
      [] sp = K -> "K"
      [] OTHER -> Unparseable

\* ------------------------------------------------- ContainsSpecieFilter
\* __init__ (lines 55-73); test reads _species only through set(), so the
\* list is kept as the set of its elements.
ContainsSpecieFilter(species, strict_compare, AND, exclude) ==
    IF \E k \in species : smart_element_or_specie(k) = ParseError
    THEN [state |-> "error", class |-> "ContainsSpecieFilter"]
    ELSE [state |-> "ok", class |-> "ContainsSpecieFilter",
          species |-> {smart_element_or_specie(k) : k \in species},
          strict |-> strict_compare, AND |-> AND, exclude |-> exclude]

atomic_number(x) == x.Z

Not(b) == IF b THEN "False" ELSE "True"

Bool(b) == IF b THEN "True" ELSE "False"

\* A slip in line 88: proper subset instead of subset.
ContainsSpecieFilter_test_proper(f, elements) ==
    LET filter_set == IF ~f.strict THEN {atomic_number(x) : x \in f.species} ELSE f.species
        structure_set == IF ~f.strict THEN {atomic_number(x) : x \in elements} ELSE elements
    IN  IF f.AND /\ filter_set \subseteq structure_set /\ filter_set /= structure_set
        THEN Not(f.exclude)
        ELSE IF ~f.AND /\ filter_set \cap structure_set /= {} THEN Not(f.exclude)
        ELSE Bool(f.exclude)

\* test (lines 75-96) on a structure whose composition has these elements.
ContainsSpecieFilter_test(f, elements) ==
    LET filter_set == IF ~f.strict THEN {atomic_number(x) : x \in f.species} ELSE f.species
        structure_set == IF ~f.strict THEN {atomic_number(x) : x \in elements} ELSE elements
    IN  IF f.AND /\ filter_set \subseteq structure_set THEN Not(f.exclude)
        ELSE IF ~f.AND /\ filter_set \cap structure_set /= {} THEN Not(f.exclude)
        ELSE Bool(f.exclude)

RdfIdle ==
    /\ symprec = None
    /\ structure_list = << >>
    /\ calls = << >>
    /\ universe = {}
    /\ RaceIdle

InitContains ==
    /\ RdfIdle
    /\ \E species \in SUBSET SpeciesStrings, strict_compare, AND, exclude \in BOOLEAN :
        /\ given = [species |-> species, strict_compare |-> strict_compare,
                    AND |-> AND, exclude |-> exclude]
        /\ filter = ContainsSpecieFilter(species, strict_compare, AND, exclude)
    /\ rebuilt = NoFilter
    /\ last_structure = None
    /\ result = None
    /\ result_rebuilt = None

\* The driver passes a structure with the given composition to test.
TestContains(elements) ==
    /\ filter.state = "ok"
    /\ filter.class = "ContainsSpecieFilter"
    /\ last_structure' = [elements |-> elements]
    /\ result' = ContainsSpecieFilter_test(filter, elements)
    /\ UNCHANGED <<symprec, structure_list, calls, universe, pc, cur, idx, overlapped,
                   filter, given, rebuilt, result_rebuilt>>

NextContains == \E elements \in SUBSET SpeciesObjs : TestContains(elements)

SpecContains == InitContains /\ [][NextContains]_vars

\* The comparison keys of a set of species under a comparison mode.
Keys(strict_compare, sps) == IF strict_compare THEN sps ELSE {x.Z : x \in sps}

\* C9: test returns not exclude iff (AND and F is a subset of S) or (not AND
\* and F intersects S), and exclude otherwise, F and S being the configured
\* and the structure's keys: atomic numbers, or the species when strict.
C9_ContainsSpecieResult ==
    result /= None =>
        LET F == Keys(given.strict_compare, {smart_element_or_specie(k) : k \in given.species})
            S == Keys(given.strict_compare, last_structure.elements)
            match == \/ given.AND /\ \A x \in F : x \in S
                     \/ ~given.AND /\ \E x \in F : x \in S
        IN  result = IF match = given.exclude THEN "False" ELSE "True"

\* Na+ is required under strict comparison and the structure holds the bare
\* element Na: no match, although the atomic numbers agree.
C9_Witness ==
    /\ result = "False"
    /\ given.species = {"Na+"} /\ given.strict_compare /\ given.AND /\ ~given.exclude
    /\ last_structure.elements = {Na, ClMinus}

\* ------------------------------------------------- SpecieProximityFilter
MaxDist == 2
MaxCell == 2
MaxSites == 2

\* Distances (and thresholds) in units of one lattice step; thresholds may
\* be given as zero or negative numbers.
Thresholds == (0 - 1)..MaxDist

\* The dicts a caller may pass: species strings (one of them unparseable)
\* mapped to minimum distances.
ProximityKeys == {"Na+", "Cl-", Unparseable}

ProximityArgs == UNION {[ks -> Thresholds] : ks \in SUBSET ProximityKeys}

\* __init__ (lines 121-134): the keys are parsed, the values kept as given.
SpecieProximityFilter(specie_and_min_dist_dict) ==
    IF \E k \in DOMAIN specie_and_min_dist_dict : smart_element_or_specie(k) = ParseError
    THEN [state |-> "error", class |-> "SpecieProximityFilter"]
    ELSE [state |-> "ok", class |-> "SpecieProximityFilter",
          specie_and_min_dist |->
              [sp \in {smart_element_or_specie(k) : k \in DOMAIN specie_and_min_dist_dict} |->
                  specie_and_min_dist_dict[str(sp)]]]

\* A periodic structure on a line: the cell length and the sites, each with
\* a position in the cell and the species occupying it.
SiteSpecies == {{NaPlus}, {ClMinus}, {NaPlus, ClMinus}, {K}}

SitesIn(cell) ==
    UNION {[1..n -> [x : 0..(cell - 1), species : SiteSpecies]] : n \in 1..MaxSites}

Structures == UNION {[sites : SitesIn(cell), cell : {cell}] : cell \in 1..MaxCell}

Abs(v) == IF v < 0 THEN 0 - v ELSE v

Max(S) == CHOOSE v \in S : \A w \in S : w <= v

Min(S) == CHOOSE v \in S : \A w \in S : v <= w

Images == (0 - (MaxDist + 1))..(MaxDist + 1)

\* structure.get_neighbors(site, r): every periodic image of every site
\* within r of the site, the site itself excluded, with its distance.
get_neighbors(st, i, r) ==
    LET sites == st.sites
        cell == st.cell
    IN  {[site |-> sites[j], dist |-> Abs(sites[j].x + n * cell - sites[i].x)] :
            <<j, n>> \in {jn \in (DOMAIN sites) \X Images :
                /\ jn /= <<i, 0>>
                /\ Abs(sites[jn[1]].x + jn[2] * cell - sites[i].x) <= r}}

\* The radius queried at a site (lines 142-143).
max_r_min(f, sp_to_test) == Min({f.specie_and_min_dist[sp] : sp \in sp_to_test})

max_r(f, sp_to_test) == Max({f.specie_and_min_dist[sp] : sp \in sp_to_test})

\* The body of the site loop (lines 139-149): TRUE when it returns False.
SiteFails(f, st, i) ==
    LET all_species == DOMAIN f.specie_and_min_dist
        sp_to_test == st.sites[i].species \cap all_species
    IN  /\ sp_to_test /= {}
        /\ LET nn == get_neighbors(st, i, max_r(f, sp_to_test))
           IN  \E sp \in sp_to_test : \E nb \in nn :
                   /\ sp \in nb.site.species
                   /\ nb.dist < f.specie_and_min_dist[sp]

\* test (lines 136-150).
SpecieProximityFilter_test(f, st) ==
    IF \E i \in DOMAIN st.sites : SiteFails(f, st, i) THEN "False" ELSE "True"

InitProximity ==
    /\ RdfIdle
    /\ FilterIdle

\* A caller constructs the filter.
Construct(specie_and_min_dist_dict) ==
    /\ filter.state = "none"
    /\ given' = specie_and_min_dist_dict
    /\ filter' = SpecieProximityFilter(specie_and_min_dist_dict)
    /\ UNCHANGED <<symprec, structure_list, calls, universe, pc, cur, idx, overlapped,
                   rebuilt, last_structure, result, result_rebuilt>>

\* The driver passes a structure to test (one structure per run: the filter
\* keeps no state between calls).
TestProximity(st) ==
    /\ filter.state = "ok"
    /\ result = None
    /\ filter.class = "SpecieProximityFilter"
    /\ last_structure' = st
    /\ result' = SpecieProximityFilter_test(filter, st)
    /\ UNCHANGED <<symprec, structure_list, calls, universe, pc, cur, idx, overlapped,
                   filter, given, rebuilt, result_rebuilt>>

NextProximity ==
    \/ \E d \in ProximityArgs : Construct(d)
    \/ \E st \in Structures : TestProximity(st)

SpecProximity == InitProximity /\ [][NextProximity]_vars

\* C7: a mapping with a non-positive minimum distance or an unparseable
\* species string is rejected at construction, so no constructed filter has
\* a non-positive threshold.
C7_ConstructionRejectsBadConfig ==
    filter.state /= "none" =>
        /\ Unparseable \in DOMAIN given => filter.state = "error"
        /\ (\E k \in DOMAIN given : given[k] <= 0) => filter.state = "error"
        /\ filter.state = "ok" =>
            \A sp \in DOMAIN filter.specie_and_min_dist : filter.specie_and_min_dist[sp] > 0

\* Some image of some site, other than site i itself, holds sp closer to
\* site i than d.
CloserThan(st, i, sp, d) ==
    \E j \in DOMAIN st.sites : \E n \in Images :
        /\ <<j, n>> /= <<i, 0>>
        /\ sp \in st.sites[j].species
        /\ Abs(st.sites[j].x + n * st.cell - st.sites[i].x) < d

\* C8: test returns False iff some site holds a constrained species sp and
\* some periodic neighbour of it holding sp is strictly closer than
\* minDistance[sp]; otherwise True.
C8_ProximityResult ==
    result /= None =>
        (result = "False" <=>
            \E i \in DOMAIN last_structure.sites : \E k \in DOMAIN given :
                /\ smart_element_or_specie(k) \in last_structure.sites[i].species
                /\ CloserThan(last_structure, i, smart_element_or_specie(k), given[k]))

\* A site holding two constrained species: its neighbour violates only the
\* larger threshold and lies beyond the smaller one.
C8_Witness ==
    /\ result = "False"
    /\ DOMAIN given = {"Na+", "Cl-"} /\ given["Na+"] = 0 /\ given["Cl-"] = 2
    /\ last_structure.cell = 2
    /\ Len(last_structure.sites) = 2
    /\ last_structure.sites[1] = [x |-> 0, species |-> {NaPlus, ClMinus}]
    /\ last_structure.sites[2] = [x |-> 1, species |-> {ClMinus}]


\* ------------------------------------------------- ChargeBalanceFilter
ChargeBalanceFilter == [state |-> "ok", class |-> "ChargeBalanceFilter"]

\* test (lines 224-228) on a structure with this net charge.
ChargeBalanceFilter_test(charge) == IF charge = 0 THEN "True" ELSE "False"

\* ------------------------------------------------- to_dict and from_dict
Comparators == {"ElementComparator", "SpeciesComparator"}

\* StructureMatcher.to_dict and StructureMatcher.from_dict.
sm_to_dict(sm) == ("@class" :> "StructureMatcher") @@ ("comparator" :> sm.comparator)

sm_from_dict(d) == [comparator |-> d["comparator"]]

\* RemoveDuplicatesFilter.__init__ (lines 166-186).
RemoveDuplicatesFilter(structure_matcher, sp) ==
    [state |-> "ok", class |-> "RemoveDuplicatesFilter",
     symprec |-> sp,
     structure_list |-> << >>,
     sm |-> IF "@class" \in DOMAIN structure_matcher
            THEN sm_from_dict(structure_matcher)
            ELSE structure_matcher]

Module == "pymatgen.alchemy.filters"

\* The to_dict property of each filter class.
to_dict(f) ==
    CASE f.class = "ContainsSpecieFilter" ->
            ("@module" :> Module) @@ ("@class" :> f.class) @@
            ("init_args" :> [species |-> {str(sp) : sp \in f.species},
                             strict_compare |-> f.strict,
                             AND |-> f.AND,
                             exclude |-> f.exclude])
      [] f.class = "SpecieProximityFilter" ->
            ("@module" :> Module) @@ ("@class" :> f.class) @@
            ("init_args" :> [specie_and_min_dist_dict |->
                [k \in {str(sp) : sp \in DOMAIN f.specie_and_min_dist} |->
                    f.specie_and_min_dist[smart_element_or_specie(k)]]])
      [] f.class = "RemoveDuplicatesFilter" ->
            ("@module" :> Module) @@ ("@class" :> f.class) @@
            ("init_args" :> [structure_matcher |-> sm_to_dict(f.sm)])
      [] f.class = "ChargeBalanceFilter" ->
            ("@module" :> Module) @@ ("@class" :> f.class)

FilterClasses == {"ContainsSpecieFilter", "SpecieProximityFilter",
                  "RemoveDuplicatesFilter", "ChargeBalanceFilter"}

\* AbstractStructureFilter.from_dict (lines 38-46): trans(**d['init_args']).
from_dict(d) ==
    IF d["@class"] \notin FilterClasses THEN [state |-> "error", class |-> "ValueError"]
    ELSE IF "init_args" \notin DOMAIN d THEN [state |-> "error", class |-> "KeyError"]
    ELSE LET a == d["init_args"] IN
        CASE d["@class"] = "ContainsSpecieFilter" ->
                ContainsSpecieFilter(a.species, a.strict_compare, a.AND, a.exclude)
          [] d["@class"] = "SpecieProximityFilter" ->
                SpecieProximityFilter(a.specie_and_min_dist_dict)
          [] d["@class"] = "RemoveDuplicatesFilter" ->
                RemoveDuplicatesFilter(a.structure_matcher,
                    IF "symprec" \in DOMAIN a THEN a.symprec ELSE None)
          [] d["@class"] = "ChargeBalanceFilter" -> ChargeBalanceFilter

\* filter.test(structure): the value returned and the filter afterwards.
FilterTest(f, st) ==
    CASE f.class = "ContainsSpecieFilter" ->
            [ret |-> ContainsSpecieFilter_test(f, st.elements), filter |-> f]
      [] f.class = "SpecieProximityFilter" ->
            [ret |-> SpecieProximityFilter_test(f, st), filter |-> f]
      [] f.class = "RemoveDuplicatesFilter" ->
            LET r == test(f.structure_list, f.symprec, st)
            IN  [ret |-> r.ret, filter |-> [f EXCEPT !.structure_list = r.list]]
      [] f.class = "ChargeBalanceFilter" ->
            [ret |-> ChargeBalanceFilter_test(st.charge), filter |-> f]

\* The structures of the fixture, as each filter class observes them.
Fixture(class) ==
    CASE class = "ContainsSpecieFilter" -> [elements : SUBSET SpeciesObjs]
      [] class = "SpecieProximityFilter" -> Structures
      [] class = "RemoveDuplicatesFilter" -> WellFormed
      [] class = "ChargeBalanceFilter" -> [charge : (0 - 1)..1]

\* Every filter a caller can construct.
Filters ==
    {ContainsSpecieFilter(species, s, a, e) :
        species \in SUBSET SpeciesStrings, s \in BOOLEAN, a \in BOOLEAN, e \in BOOLEAN}
    \cup {SpecieProximityFilter(d) : d \in {x \in ProximityArgs : Unparseable \notin DOMAIN x}}
    \cup {RemoveDuplicatesFilter([comparator |-> c], sp) : c \in Comparators, sp \in Symprecs}
    \cup {ChargeBalanceFilter}

InitRoundTrip ==
    /\ RdfIdle
    /\ filter \in Filters
    /\ given = None
    /\ rebuilt = NoFilter
    /\ last_structure = None
    /\ result = None
    /\ result_rebuilt = None

\* rebuilt = AbstractStructureFilter.from_dict(filter.to_dict).
RoundTrip ==
    /\ rebuilt.state = "none"
    /\ rebuilt' = from_dict(to_dict(filter))
    /\ UNCHANGED <<symprec, structure_list, calls, universe, pc, cur, idx, overlapped,
                   filter, given, last_structure, result, result_rebuilt>>

Stateless(f) == f.class /= "RemoveDuplicatesFilter"

\* The same structure is passed to the original and to the rebuilt filter.
TestBoth(st) ==
    /\ rebuilt.state /= "none"
    /\ IF Stateless(filter) THEN result = None
       ELSE Len(filter.structure_list) < MaxCalls
    /\ last_structure' = st
    /\ LET o == FilterTest(filter, st) IN
        /\ result' = o.ret
        /\ filter' = o.filter
    /\ IF rebuilt.state = "ok"
       THEN LET r == FilterTest(rebuilt, st) IN
            /\ result_rebuilt' = r.ret
            /\ rebuilt' = r.filter
       ELSE UNCHANGED <<rebuilt, result_rebuilt>>
    /\ UNCHANGED <<symprec, structure_list, calls, universe, pc, cur, idx, overlapped, given>>

NextRoundTrip ==
    \/ RoundTrip
    \/ \E st \in Fixture(filter.class) : TestBoth(st)

SpecRoundTrip == InitRoundTrip /\ [][NextRoundTrip]_vars

\* C6: the filter rebuilt by from_dict from to_dict is constructed and
\* returns the same test outputs as the original on every sequence of
\* structures.
C6_RoundTripSameOutputs ==
    rebuilt.state /= "none" =>
        /\ rebuilt.state = "ok"
        /\ result = result_rebuilt

====
